---- MODULE Spec2Model ----
(***************************************************************************)
(* Model of src/sparse_matrix/code/src/main.py: class SparseMatrix (a      *)
(* dictionary of non-zero entries with declared dimensions), its text      *)
(* codec (load_from_file / to_string / save_to_file) and its arithmetic    *)
(* (add / subtract / multiply).                                            *)
(*                                                                         *)
(* A Python dict is modelled as an insertion-ordered sequence of           *)
(* <<key, value>> items with unique keys; text is a sequence of            *)
(* one-character strings.  Objects live in a heap so that sharing of a     *)
(* dict between two matrices is observable.                                *)
(***************************************************************************)
EXTENDS Integers, Sequences, FiniteSets, TLC

\* ------------------------------------------------------------------ bounds
MaxCoord == 1       \* set_element coordinates range over 0..MaxCoord
MaxVal   == 1       \* set_element values range over -MaxVal..MaxVal
MaxDim   == 2       \* SparseMatrix(rows=.., cols=..) dimensions range over 1..MaxDim
MaxSets  == 1       \* number of set_element calls in one run
MaxOps   == 2       \* number of add / subtract / multiply calls in one run

Coords == 0..MaxCoord
Vals   == (0 - MaxVal)..MaxVal
Dims   == 1..MaxDim

\* ------------------------------------------------------------- characters
NL == "\n"
DigitChars == <<"0", "1", "2", "3", "4", "5", "6", "7", "8", "9">>
IsDigit(c) == \E i \in 1..10 : DigitChars[i] = c
DigitVal(c) == (CHOOSE i \in 1..10 : DigitChars[i] = c) - 1
\* str.strip() with no argument removes ASCII whitespace
IsSpace(c) == c \in {" ", "\n", "\t", "\r"}

\* --------------------------------------------------------- str operations
RECURSIVE LStrip(_)
LStrip(s) ==
  IF s = <<>> THEN s
  ELSE IF IsSpace(Head(s)) THEN LStrip(Tail(s)) ELSE s

RECURSIVE RStrip(_)
RStrip(s) ==
  IF s = <<>> THEN s
  ELSE IF IsSpace(s[Len(s)]) THEN RStrip(SubSeq(s, 1, Len(s) - 1)) ELSE s

\* str.strip()
Strip(s) == RStrip(LStrip(s))

\* str.startswith(p)
StartsWith(s, p) == Len(s) >= Len(p) /\ SubSeq(s, 1, Len(p)) = p

\* str.endswith(p)
EndsWith(s, p) == Len(s) >= Len(p) /\ SubSeq(s, Len(s) - Len(p) + 1, Len(s)) = p

\* str.split(sep) for a one-character separator: the list of fields
RECURSIVE SplitAcc(_, _, _, _)
SplitAcc(s, sep, i, cur) ==
  IF i > Len(s) THEN <<cur>>
  ELSE IF s[i] = sep THEN <<cur>> \o SplitAcc(s, sep, i + 1, <<>>)
  ELSE SplitAcc(s, sep, i + 1, Append(cur, s[i]))

Split(s, sep) == SplitAcc(s, sep, 1, <<>>)

\* sep.join(parts)
RECURSIVE Join(_, _)
Join(parts, sep) ==
  IF parts = <<>> THEN <<>>
  ELSE IF Len(parts) = 1 THEN parts[1]
  ELSE parts[1] \o <<sep>> \o Join(Tail(parts), sep)

\* iteration over an open text file: the lines, each keeping its "\n"
RECURSIVE FileLinesAcc(_, _, _)
FileLinesAcc(s, i, cur) ==
  IF i > Len(s) THEN (IF cur = <<>> THEN <<>> ELSE <<cur>>)
  ELSE IF s[i] = NL THEN <<Append(cur, NL)>> \o FileLinesAcc(s, i + 1, <<>>)
  ELSE FileLinesAcc(s, i + 1, Append(cur, s[i]))

FileLines(text) == FileLinesAcc(text, 1, <<>>)

\* ------------------------------------------------------ int <-> str
\* str(n) for n >= 0, as an f-string formats it
RECURSIVE NatToStr(_)
NatToStr(n) ==
  IF n < 10 THEN <<DigitChars[n + 1]>>
  ELSE NatToStr(n \div 10) \o <<DigitChars[(n % 10) + 1]>>

\* f"{n}" for an int
IntToStr(n) == IF n < 0 THEN <<"-">> \o NatToStr(0 - n) ELSE NatToStr(n)

\* the digits of int()'s argument: non-empty, digits with single
\* underscores between them
DigitsOk(b) ==
  /\ b # <<>>
  /\ \A i \in 1..Len(b) : IsDigit(b[i]) \/ b[i] = "_"
  /\ b[1] # "_" /\ b[Len(b)] # "_"
  /\ \A i \in 1..(Len(b) - 1) : ~(b[i] = "_" /\ b[i + 1] = "_")

RECURSIVE DigitsVal(_, _)
DigitsVal(b, acc) ==
  IF b = <<>> THEN acc
  ELSE IF Head(b) = "_" THEN DigitsVal(Tail(b), acc)
  ELSE DigitsVal(Tail(b), 10 * acc + DigitVal(Head(b)))

\* int(s): [ok |-> FALSE] stands for the ValueError it raises
PyInt(s) ==
  LET t    == Strip(s)
      neg  == t # <<>> /\ t[1] = "-"
      sgn  == t # <<>> /\ t[1] \in {"-", "+"}
      body == IF sgn THEN Tail(t) ELSE t
  IN IF DigitsOk(body)
     THEN [ok |-> TRUE,
           val |-> IF neg THEN 0 - DigitsVal(body, 0) ELSE DigitsVal(body, 0)]
     ELSE [ok |-> FALSE, val |-> 0]

\* ------------------------------------------------------------ dict
\* a dict is a sequence of <<key, value>> items in insertion order
HasKey(d, k) == \E i \in 1..Len(d) : d[i][1] = k
KeyIndex(d, k) == CHOOSE i \in 1..Len(d) : d[i][1] = k

\* d.get(k, default)
DictGet(d, k, default) == IF HasKey(d, k) THEN d[KeyIndex(d, k)][2] ELSE default

\* d[k] = v : an existing key keeps its position, a new key goes last
DictSet(d, k, v) ==
  IF HasKey(d, k) THEN [d EXCEPT ![KeyIndex(d, k)] = <<k, v>>]
  ELSE Append(d, <<k, v>>)

\* del d[k]
DictDel(d, k) ==
  LET i == KeyIndex(d, k)
  IN SubSeq(d, 1, i - 1) \o SubSeq(d, i + 1, Len(d))

Keys(d) == {d[i][1] : i \in 1..Len(d)}
Items(d) == {d[i] : i \in 1..Len(d)}

\* comparison of two (key, value) items as Python compares nested tuples
ItemLess(a, b) ==
  \/ a[1][1] < b[1][1]
  \/ a[1][1] = b[1][1] /\ a[1][2] < b[1][2]
  \/ a[1] = b[1] /\ a[2] < b[2]

\* the items in insertion order, as a loop over data.items() without sorted()
Unsorted(d) == d

\* sorted(d.items())
RECURSIVE InsertSorted(_, _)
InsertSorted(x, s) ==
  IF s = <<>> THEN <<x>>
  ELSE IF ItemLess(x, Head(s)) THEN <<x>> \o s
  ELSE <<Head(s)>> \o InsertSorted(x, Tail(s))

RECURSIVE Sorted(_)
Sorted(d) ==
  IF d = <<>> THEN <<>>
  ELSE InsertSorted(d[Len(d)], Sorted(SubSeq(d, 1, Len(d) - 1)))

\* ------------------------------------------------------------ text codec
ROWS_EQ == <<"r", "o", "w", "s", "=">>
COLS_EQ == <<"c", "o", "l", "s", "=">>

\* the fields written as col, row, val
EntryLineSwapped(item) ==
  <<"(">> \o IntToStr(item[1][2]) \o <<",", " ">> \o IntToStr(item[1][1])
    \o <<",", " ">> \o IntToStr(item[2]) \o <<")">>

\* the f-string of to_string's loop body: f"({row}, {col}, {val})"
EntryLine(item) ==
  <<"(">> \o IntToStr(item[1][1]) \o <<",", " ">> \o IntToStr(item[1][2])
    \o <<",", " ">> \o IntToStr(item[2]) \o <<")">>

\* to_string: the header lines, then one line per item of sorted(data.items())
to_string(rows, cols, d) ==
  LET items == Sorted(d)
      lines == <<ROWS_EQ \o IntToStr(rows), COLS_EQ \o IntToStr(cols)>>
                 \o [i \in 1..Len(items) |-> EntryLine(items[i])]
  IN Join(lines, NL)

\* the state of a load in progress; ok = FALSE once an exception was raised
LoadFail(st) == [st EXCEPT !.ok = FALSE]

\* the "rows=" branch
LoadRows(st, line) ==
  LET n == PyInt(Strip(Split(line, "=")[2]))
  IN IF n.ok THEN [st EXCEPT !.rows = n.val] ELSE LoadFail(st)

\* the "cols=" branch
LoadCols(st, line) ==
  LET n == PyInt(Strip(Split(line, "=")[2]))
  IN IF n.ok THEN [st EXCEPT !.cols = n.val] ELSE LoadFail(st)

\* the "(...)" branch: three int fields, stored with data[(row, col)] = val
LoadEntry(st, line) ==
  LET parts == Split(SubSeq(line, 2, Len(line) - 1), ",")
  IN IF Len(parts) # 3 THEN LoadFail(st)
     ELSE LET row == PyInt(Strip(parts[1]))
              col == PyInt(Strip(parts[2]))
              val == PyInt(Strip(parts[3]))
          IN IF row.ok /\ col.ok /\ val.ok
             THEN [st EXCEPT !.data = DictSet(@, <<row.val, col.val>>, val.val)]
             ELSE LoadFail(st)

\* the body of the for loop over the file's lines
LoadLine(st, raw) ==
  LET line == Strip(raw)
  IN IF line = <<>> THEN st
     ELSE IF StartsWith(line, ROWS_EQ) THEN LoadRows(st, line)
     ELSE IF StartsWith(line, COLS_EQ) THEN LoadCols(st, line)
     ELSE IF StartsWith(line, <<"(">>) /\ EndsWith(line, <<")">>) THEN LoadEntry(st, line)
     ELSE LoadFail(st)

RECURSIVE LoadLoop(_, _, _)
LoadLoop(st, lines, i) ==
  IF i > Len(lines) \/ ~st.ok THEN st
  ELSE LoadLoop(LoadLine(st, lines[i]), lines, i + 1)

NoFile == <<"<no such file>">>
WRONG_FORMAT == "Input file has wrong format"

\* SparseMatrix(file_path): rows = cols = 0 and an empty dict, then
\* load_from_file; open() failing and every parse failure end in the same
\* ValueError
load_from_file(text) ==
  LET st0 == [ok |-> TRUE, rows |-> 0, cols |-> 0, data |-> <<>>]
  IN IF text = NoFile THEN LoadFail(st0)
     ELSE LoadLoop(st0, FileLines(text), 1)

\* ------------------------------------------------------------ SparseMatrix
\* A matrix object is [rows, cols, data], data being the heap address of its
\* dict; h is the heap, a function from addresses to dicts.

\* __init__(rows=.., cols=..) without a file: self.data = {} at a new address
SparseMatrix(h, id, rows, cols) ==
  [heap |-> [h EXCEPT ![id] = <<>>],
   obj  |-> [rows |-> rows, cols |-> cols, data |-> id]]

get_element(h, self, row, col) == DictGet(h[self.data], <<row, col>>, 0)

set_element(h, self, row, col, value) ==
  IF value # 0
  THEN [h EXCEPT ![self.data] = DictSet(@, <<row, col>>, value)]
  ELSE IF HasKey(h[self.data], <<row, col>>)
       THEN [h EXCEPT ![self.data] = DictDel(@, <<row, col>>)]
       ELSE h

\* result.data = self.data, without the copy
CopyDataAlias(h, result, self) ==
  [heap |-> h, obj |-> [result EXCEPT !.data = self.data]]

\* result.data = self.data.copy(): the result's dict is a new dict holding
\* self's items
CopyData(h, result, self) ==
  [heap |-> [h EXCEPT ![result.data] = h[self.data]], obj |-> result]

ADD_MISMATCH == "Matrix dimensions must match for addition"
SUB_MISMATCH == "Matrix dimensions must match for subtraction"
MUL_MISMATCH == "Matrix dimensions do not allow multiplication"

Raise(h, msg) == [ok |-> FALSE, err |-> msg, heap |-> h, obj |-> <<>>]
Return(h, result) == [ok |-> TRUE, err |-> "", heap |-> h, obj |-> <<result>>]

\* the loop of add storing the sum with result.data[(row, col)] = ...
\* instead of set_element
RECURSIVE AddLoopDirect(_, _, _, _)
AddLoopDirect(h, result, items, i) ==
  IF i > Len(items) THEN h
  ELSE LET k == items[i][1]
           val == items[i][2]
       IN AddLoopDirect([h EXCEPT ![result.data] =
                            DictSet(@, k, get_element(h, result, k[1], k[2]) + val)],
                        result, items, i + 1)

\* the for loop of add over other.data.items()
RECURSIVE AddLoop(_, _, _, _)
AddLoop(h, result, items, i) ==
  IF i > Len(items) THEN h
  ELSE LET row == items[i][1][1]
           col == items[i][1][2]
           val == items[i][2]
       IN AddLoop(set_element(h, result, row, col, get_element(h, result, row, col) + val),
                  result, items, i + 1)

\* the dimension check of add with "and" for "or"
addBothDiffer(h, id, self, other) ==
  IF self.rows # other.rows /\ self.cols # other.cols THEN Raise(h, ADD_MISMATCH)
  ELSE LET new == SparseMatrix(h, id, self.rows, self.cols)
           cp  == CopyData(new.heap, new.obj, self)
       IN Return(AddLoop(cp.heap, cp.obj, h[other.data], 1), cp.obj)

add(h, id, self, other) ==
  IF self.rows # other.rows \/ self.cols # other.cols THEN Raise(h, ADD_MISMATCH)
  ELSE LET new == SparseMatrix(h, id, self.rows, self.cols)
           cp  == CopyData(new.heap, new.obj, self)
       IN Return(AddLoop(cp.heap, cp.obj, h[other.data], 1), cp.obj)

\* the for loop of subtract over other.data.items()
RECURSIVE SubtractLoop(_, _, _, _)
SubtractLoop(h, result, items, i) ==
  IF i > Len(items) THEN h
  ELSE LET row == items[i][1][1]
           col == items[i][1][2]
           val == items[i][2]
       IN SubtractLoop(set_element(h, result, row, col, get_element(h, result, row, col) - val),
                       result, items, i + 1)

subtract(h, id, self, other) ==
  IF self.rows # other.rows \/ self.cols # other.cols THEN Raise(h, SUB_MISMATCH)
  ELSE LET new == SparseMatrix(h, id, self.rows, self.cols)
           cp  == CopyData(new.heap, new.obj, self)
       IN Return(SubtractLoop(cp.heap, cp.obj, h[other.data], 1), cp.obj)

\* the inner loop of multiply storing v1 * v2 without adding current_val
RECURSIVE MultiplyColsOverwrite(_, _, _, _, _, _, _)
MultiplyColsOverwrite(h, result, other, r1, c1, v1, c2) ==
  IF c2 >= other.cols THEN h
  ELSE LET v2 == get_element(h, other, c1, c2)
           h2 == IF v2 # 0 THEN set_element(h, result, r1, c2, v1 * v2) ELSE h
       IN MultiplyColsOverwrite(h2, result, other, r1, c1, v1, c2 + 1)

\* the inner loop of multiply: for c2 in range(other.cols)
RECURSIVE MultiplyCols(_, _, _, _, _, _, _)
MultiplyCols(h, result, other, r1, c1, v1, c2) ==
  IF c2 >= other.cols THEN h
  ELSE LET v2 == get_element(h, other, c1, c2)
           h2 == IF v2 # 0
                 THEN set_element(h, result, r1, c2, get_element(h, result, r1, c2) + v1 * v2)
                 ELSE h
       IN MultiplyCols(h2, result, other, r1, c1, v1, c2 + 1)

\* the outer loop of multiply over self.data.items()
RECURSIVE MultiplyLoop(_, _, _, _, _)
MultiplyLoop(h, result, items, other, i) ==
  IF i > Len(items) THEN h
  ELSE MultiplyLoop(MultiplyCols(h, result, other, items[i][1][1], items[i][1][2], items[i][2], 0),
                    result, items, other, i + 1)

multiply(h, id, self, other) ==
  IF self.cols # other.rows THEN Raise(h, MUL_MISMATCH)
  ELSE LET new == SparseMatrix(h, id, self.rows, other.cols)
       IN Return(MultiplyLoop(new.heap, new.obj, h[self.data], other, 1), new.obj)

\* ------------------------------------------------------------ input files
\* easy 2x2 operand: [[1,0],[0,2]]
FILE_M1 ==
  <<"r", "o", "w", "s", "=", "2", NL,
    "c", "o", "l", "s", "=", "2", NL,
    "(", "0", ",", " ", "0", ",", " ", "1", ")", NL,
    "(", "1", ",", " ", "1", ",", " ", "2", ")", NL>>

\* easy 2x2 operand: [[3,4],[0,5]]
FILE_M2 ==
  <<"r", "o", "w", "s", "=", "2", NL,
    "c", "o", "l", "s", "=", "2", NL,
    "(", "0", ",", " ", "0", ",", " ", "3", ")", NL,
    "(", "0", ",", " ", "1", ",", " ", "4", ")", NL,
    "(", "1", ",", " ", "1", ",", " ", "5", ")", NL>>

\* header out of order, a blank line, unsorted entries, an entry of value 0
FILE_ZERO ==
  <<"c", "o", "l", "s", "=", "2", NL,
    NL, "r", "o", "w", "s", "=", "2", NL,
    "(", "1", ",", " ", "0", ",", " ", "-", "1", ")", NL,
    "(", " ", "0", ",", "0", " ", ",", " ", "0", ")", NL>>

\* an entry line with two fields
FILE_SHORT ==
  <<"r", "o", "w", "s", "=", "2", NL,
    "c", "o", "l", "s", "=", "2", NL,
    "(", "0", ",", " ", "0", ",", " ", "1", ")", NL,
    "(", "1", ",", " ", "2", ")", NL>>

\* an unrecognised line
FILE_FOO ==
  <<"r", "o", "w", "s", "=", "2", NL,
    "f", "o", "o", "=", "b", "a", "r", NL,
    "c", "o", "l", "s", "=", "2", NL>>

\* an entry line with a non-integer field
FILE_NONINT ==
  <<"r", "o", "w", "s", "=", "2", NL,
    "c", "o", "l", "s", "=", "2", NL,
    "(", "0", ",", " ", "x", ",", " ", "1", ")", NL>>

\* a rows= line with text after the integer
FILE_TRAIL ==
  <<"r", "o", "w", "s", "=", "2", "=", "x", NL,
    "c", "o", "l", "s", "=", "2", NL,
    "(", "0", ",", " ", "1", ",", " ", "1", ")", NL>>

\* entries out of key order, keys and values of two digits
FILE_ORDER ==
  <<"r", "o", "w", "s", "=", "1", "0", NL,
    "c", "o", "l", "s", "=", "1", "2", NL,
    "(", "1", ",", " ", "0", ",", " ", "7", ")", NL,
    "(", "0", ",", " ", "1", "1", ",", " ", "-", "8", ")", NL,
    "(", "0", ",", " ", "5", ",", " ", "1", "0", ")", NL,
    "(", "0", ",", " ", "1", ",", " ", "3", ")", NL>>

\* a 2x2 operand with negative values
FILE_NEG ==
  <<"r", "o", "w", "s", "=", "2", NL,
    "c", "o", "l", "s", "=", "2", NL,
    "(", "0", ",", " ", "0", ",", " ", "-", "1", ")", NL,
    "(", "0", ",", " ", "1", ",", " ", "4", ")", NL,
    "(", "1", ",", " ", "1", ",", " ", "-", "2", ")", NL>>

\* a 1x2 operand
FILE_WIDE ==
  <<"r", "o", "w", "s", "=", "1", NL,
    "c", "o", "l", "s", "=", "2", NL,
    "(", "0", ",", " ", "0", ",", " ", "2", ")", NL,
    "(", "0", ",", " ", "1", ",", " ", "-", "3", ")", NL>>

\* a 2x1 operand
FILE_TALL ==
  <<"r", "o", "w", "s", "=", "2", NL,
    "c", "o", "l", "s", "=", "1", NL,
    "(", "0", ",", " ", "0", ",", " ", "5", ")", NL,
    "(", "1", ",", " ", "0", ",", " ", "-", "1", ")", NL>>

\* a 3x2 operand
FILE_3X2 ==
  <<"r", "o", "w", "s", "=", "3", NL,
    "c", "o", "l", "s", "=", "2", NL,
    "(", "2", ",", " ", "1", ",", " ", "7", ")", NL,
    "(", "0", ",", " ", "0", ",", " ", "1", ")", NL,
    "(", "1", ",", " ", "0", ",", " ", "-", "4", ")", NL>>

\* a 2x3 operand
FILE_2X3 ==
  <<"r", "o", "w", "s", "=", "2", NL,
    "c", "o", "l", "s", "=", "3", NL,
    "(", "0", ",", " ", "2", ",", " ", "1", ")", NL,
    "(", "1", ",", " ", "0", ",", " ", "2", ")", NL,
    "(", "1", ",", " ", "1", ",", " ", "3", ")", NL,
    "(", "0", ",", " ", "0", ",", " ", "-", "2", ")", NL>>

\* a 1x1 matrix with an entry outside its dimensions
FILE_OUTSIDE ==
  <<"r", "o", "w", "s", "=", "1", NL,
    "c", "o", "l", "s", "=", "1", NL,
    "(", "0", ",", " ", "0", ",", " ", "2", ")", NL,
    "(", "1", ",", " ", "1", ",", " ", "1", ")", NL>>

RESULT_TXT == "result.txt"
InputPaths == {"m1", "m2", "zero", "short", "foo", "nonint", "trail", "order", "neg", "wide",
               "tall", "m3x2", "m2x3", "outside", "missing"}

InputFile(path) ==
  CASE path = "m1" -> FILE_M1
    [] path = "m2" -> FILE_M2
    [] path = "zero" -> FILE_ZERO
    [] path = "short" -> FILE_SHORT
    [] path = "foo" -> FILE_FOO
    [] path = "nonint" -> FILE_NONINT
    [] path = "trail" -> FILE_TRAIL
    [] path = "order" -> FILE_ORDER
    [] path = "neg" -> FILE_NEG
    [] path = "wide" -> FILE_WIDE
    [] path = "tall" -> FILE_TALL
    [] path = "m3x2" -> FILE_3X2
    [] path = "m2x3" -> FILE_2X3
    [] path = "outside" -> FILE_OUTSIDE
    [] OTHER -> NoFile

\* ------------------------------------------------------------ state
VARIABLES
  mat,         \* the caller's variables: name -> matrix object
  heap,        \* address -> dict
  result_txt,  \* the contents of the file save_to_file wrote, or NoFile
  last,        \* the most recent call: [op, x, y, args, err]
  prev,        \* the call before it
  nsets,       \* set_element calls made
  nops         \* add / subtract / multiply calls made

vars == <<mat, heap, result_txt, last, prev, nsets, nops>>

Operands == {"matrix1", "matrix2"}
Slots == Operands \cup {"result"}
Ids == 1..(Cardinality(Slots) + 1)

Live(m) == {m[s].data : s \in DOMAIN m}
NewId(m) == CHOOSE i \in Ids \ Live(m) : \A j \in Ids \ Live(m) : i <= j
\* dicts no variable refers to are released
Collect(h, m) == [i \in Ids |-> IF i \in Live(m) THEN h[i] ELSE <<>>]
Bind(m, s, obj) == [t \in DOMAIN m \cup {s} |-> IF t = s THEN obj ELSE m[t]]

Call(op, x, y, args, err) == [op |-> op, x |-> x, y |-> y, args |-> args, err |-> err]
NoCall == Call("none", "", "", <<>>, "")

Read(path) == IF path = RESULT_TXT THEN result_txt ELSE InputFile(path)

Init ==
  /\ mat = <<>>
  /\ heap = [i \in Ids |-> <<>>]
  /\ result_txt = NoFile
  /\ last = NoCall
  /\ prev = NoCall
  /\ nsets = 0
  /\ nops = 0

\* s = SparseMatrix(rows=rows, cols=cols)
Construct(s, rows, cols) ==
  /\ s \notin DOMAIN mat
  /\ LET new == SparseMatrix(heap, NewId(mat), rows, cols)
     IN /\ mat' = Bind(mat, s, new.obj)
        /\ heap' = new.heap
  /\ last' = Call("construct", s, "", <<rows, cols>>, "")
  /\ prev' = last
  /\ UNCHANGED <<result_txt, nsets, nops>>

\* s = SparseMatrix(path): on an exception s is not bound
Load(s, path) ==
  /\ s \notin DOMAIN mat
  /\ LET st  == load_from_file(Read(path))
         new == SparseMatrix(heap, NewId(mat), 0, 0)
         obj == [new.obj EXCEPT !.rows = st.rows, !.cols = st.cols]
     IN IF st.ok
        THEN /\ mat' = Bind(mat, s, obj)
             /\ heap' = [new.heap EXCEPT ![obj.data] = st.data]
             /\ last' = Call("load", s, "", <<path>>, "")
        ELSE /\ UNCHANGED <<mat, heap>>
             /\ last' = Call("load", s, "", <<path>>, WRONG_FORMAT)
  /\ prev' = last
  /\ UNCHANGED <<result_txt, nsets, nops>>

\* mat[s].set_element(row, col, value)
SetElement(s, row, col, value) ==
  /\ s \in DOMAIN mat
  /\ nsets < MaxSets
  /\ heap' = set_element(heap, mat[s], row, col, value)
  /\ last' = Call("set_element", s, "", <<row, col, value>>, "")
  /\ prev' = last
  /\ nsets' = nsets + 1
  /\ UNCHANGED <<mat, result_txt, nops>>

\* result = mat[x].<op>(mat[y]); r is what the method did.  On an exception
\* result keeps its binding.
Arith(op, x, y, r) ==
  /\ IF r.ok
     THEN /\ mat' = Bind(mat, "result", r.obj[1])
          /\ heap' = Collect(r.heap, mat')
     ELSE /\ mat' = mat
          /\ heap' = r.heap
  /\ last' = Call(op, x, y, <<>>, r.err)
  /\ prev' = last
  /\ nops' = nops + 1
  /\ UNCHANGED <<result_txt, nsets>>

Add(x, y) ==
  /\ x \in DOMAIN mat /\ y \in DOMAIN mat
  /\ nops < MaxOps
  /\ Arith("add", x, y, add(heap, NewId(mat), mat[x], mat[y]))

Subtract(x, y) ==
  /\ x \in DOMAIN mat /\ y \in DOMAIN mat
  /\ nops < MaxOps
  /\ Arith("subtract", x, y, subtract(heap, NewId(mat), mat[x], mat[y]))

Multiply(x, y) ==
  /\ x \in DOMAIN mat /\ y \in DOMAIN mat
  /\ nops < MaxOps
  /\ Arith("multiply", x, y, multiply(heap, NewId(mat), mat[x], mat[y]))

\* mat[s].save_to_file("result.txt")
Save(s) ==
  /\ s \in DOMAIN mat
  /\ result_txt' = to_string(mat[s].rows, mat[s].cols, heap[mat[s].data])
  /\ last' = Call("save", s, "", <<RESULT_TXT>>, "")
  /\ prev' = last
  /\ UNCHANGED <<mat, heap, nsets, nops>>

\* the operand pairs of result = x.<op>(y): two operands, an operand with
\* itself, and the result of the call before with an operand
OpPairs == {<<"matrix1", "matrix2">>, <<"matrix1", "matrix1">>, <<"result", "matrix2">>}
DriverPaths == {"m1", "m2", "zero", "short", "missing"}

\* the general driver: matrices are built or loaded and edited, and arithmetic
\* calls follow one another
Next ==
  \/ \E s \in Operands, rows \in Dims, cols \in Dims : Construct(s, rows, cols)
  \/ \E s \in Operands, path \in DriverPaths : Load(s, path)
  \/ \E s \in Slots, row \in Coords, col \in Coords, value \in Vals : SetElement(s, row, col, value)
  \/ \E p \in OpPairs : Add(p[1], p[2])
  \/ \E p \in OpPairs : Subtract(p[1], p[2])
  \/ \E p \in OpPairs : Multiply(p[1], p[2])

Spec == Init /\ [][Next]_vars

\* main's run: two matrices are loaded (or built empty) and one arithmetic
\* call on them gives result
ArithPaths == {"m1", "m2", "zero", "neg", "wide", "tall", "m3x2", "m2x3", "outside", "foo"}

NextArith ==
  \/ \E s \in Operands, rows \in Dims, cols \in Dims : Construct(s, rows, cols)
  \/ \E s \in Operands, path \in ArithPaths : Load(s, path)
  \/ \E x \in Operands, y \in Operands : "result" \notin DOMAIN mat /\ Add(x, y)
  \/ \E x \in Operands, y \in Operands : "result" \notin DOMAIN mat /\ Subtract(x, y)
  \/ \E x \in Operands, y \in Operands : "result" \notin DOMAIN mat /\ Multiply(x, y)

SpecArith == Init /\ [][NextArith]_vars

\* ownership: the two matrices are loaded in the order main loads them, one
\* arithmetic call is made, and the matrices the caller then holds are edited
AliasPaths == {"m1", "wide", "foo"}

NextAlias ==
  \/ \E path \in AliasPaths : "result" \notin DOMAIN mat /\ Load("matrix1", path)
  \/ \E path \in AliasPaths :
       "matrix1" \in DOMAIN mat /\ "result" \notin DOMAIN mat /\ Load("matrix2", path)
  \/ \E x \in Operands, y \in Operands : "result" \notin DOMAIN mat /\ Add(x, y)
  \/ \E x \in Operands, y \in Operands : "result" \notin DOMAIN mat /\ Subtract(x, y)
  \/ \E x \in Operands, y \in Operands : "result" \notin DOMAIN mat /\ Multiply(x, y)
  \/ \E s \in Slots, row \in Coords, col \in Coords, value \in Vals :
       "result" \in DOMAIN mat /\ SetElement(s, row, col, value)

SpecAlias == Init /\ [][NextAlias]_vars

\* the codec: a matrix is built or loaded and edited, saved, and the saved
\* file loaded
CodecPaths == {"m1", "zero", "order", "outside", "short", "foo", "nonint", "trail", "missing"}

NextCodec ==
  \/ \E rows \in Dims, cols \in Dims : Construct("matrix1", rows, cols)
  \/ \E path \in CodecPaths : Load("matrix1", path)
  \/ \E row \in Coords, col \in Coords, value \in Vals :
       result_txt = NoFile /\ SetElement("matrix1", row, col, value)
  \/ Save("matrix1")
  \/ Load("matrix2", RESULT_TXT)

SpecCodec == Init /\ [][NextCodec]_vars

\* ------------------------------------------------------------ properties
Dict(s) == heap[mat[s].data]
NoZero(d) == \A i \in 1..Len(d) : d[i][2] # 0
KeyLess(j, k) == j[1] < k[1] \/ (j[1] = k[1] /\ j[2] < k[2])
InRange(d, rows, cols) ==
  \A k \in Keys(d) : 0 <= k[1] /\ k[1] < rows /\ 0 <= k[2] /\ k[2] < cols
DimensionMismatch == {ADD_MISMATCH, SUB_MISMATCH, MUL_MISMATCH}
IsSetElement == nsets' = nsets + 1
IsArith == nops' = nops + 1

\* C1: after a call set_element(r, c, v) on any matrix no key of it maps to
\* 0, get_element(r, c) is v, and get_element at every other coordinate is
\* what it was before the call.
C1_SetElementContract ==
  [][IsSetElement =>
       LET s == last'.x
           r == last'.args[1]
           c == last'.args[2]
           v == last'.args[3]
           others == (Keys(Dict(s)) \cup Keys(heap'[mat'[s].data]) \cup (Coords \X Coords))
                       \ {<<r, c>>}
       IN /\ NoZero(heap'[mat'[s].data])
          /\ get_element(heap', mat'[s], r, c) = v
          /\ \A k \in others :
               get_element(heap', mat'[s], k[1], k[2]) = get_element(heap, mat[s], k[1], k[2])]_vars

\* C2: every matrix a successful load, add, subtract or multiply returns
\* stores no entry of value 0.
C2_ReturnedMatrixHasNoZero ==
  /\ (last.op = "load" /\ last.err = "") => NoZero(Dict(last.x))
  /\ (last.op \in {"add", "subtract", "multiply"} /\ last.err = "") => NoZero(Dict("result"))

\* C3: the file save_to_file writes for a matrix loads without error into a
\* matrix with the same rows, the same cols and the same entries.
SameMatrix(rows, cols, d, m, e) ==
  rows = m.rows /\ cols = m.cols /\ Len(d) = Len(e) /\ Items(d) = Items(e)

LoadsAs(st, m, e) == st.ok /\ SameMatrix(st.rows, st.cols, st.data, m, e)

C3_RoundTrip ==
  /\ last.op = "save" => LoadsAs(load_from_file(result_txt), mat[last.x], Dict(last.x))
  /\ (prev.op = "save" /\ last.op = "load" /\ last.args = <<RESULT_TXT>>) =>
       /\ last.err = ""
       /\ last.x \in DOMAIN mat
       /\ SameMatrix(mat[last.x].rows, mat[last.x].cols, Dict(last.x), mat[prev.x], Dict(prev.x))

\* a matrix with a negative value and a two-digit value was saved and loaded
C3_Witness ==
  /\ prev.op = "save" /\ last.op = "load" /\ last.args = <<RESULT_TXT>> /\ last.err = ""
  /\ \E i \in 1..Len(Dict(last.x)) : Dict(last.x)[i][2] < 0
  /\ \E i \in 1..Len(Dict(last.x)) : Dict(last.x)[i][2] >= 10

\* C4: result = A.add(B) followed by result = result.subtract(B) leaves in
\* result A's dimensions and exactly A's entries.
C4_AddThenSubtract ==
  (/\ prev.op = "add" /\ prev.err = "" /\ prev.x # "result"
   /\ last.op = "subtract" /\ last.err = "" /\ last.x = "result" /\ last.y = prev.y)
  => SameMatrix(mat["result"].rows, mat["result"].cols, Dict("result"),
                mat[prev.x], Dict(prev.x))

\* cell (r, c) of the dense product: the sum over k in [0, n) of A[r,k] * B[k,c]
RECURSIVE DenseCell(_, _, _, _, _)
DenseCell(a, b, n, r, c) ==
  IF n <= 0 THEN 0
  ELSE DenseCell(a, b, n - 1, r, c) + DictGet(a, <<r, n - 1>>, 0) * DictGet(b, <<n - 1, c>>, 0)

\* C5: for operands whose keys lie within their dimensions, a successful
\* multiply returns an A.rows x B.cols matrix that stores key (r, c) exactly
\* when cell (r, c) of the dense product is non-zero, with that cell's value.
C5_MultiplyIsDenseProduct ==
  [][(/\ IsArith /\ last'.op = "multiply" /\ last'.err = ""
      /\ InRange(Dict(last'.x), mat[last'.x].rows, mat[last'.x].cols)
      /\ InRange(Dict(last'.y), mat[last'.y].rows, mat[last'.y].cols))
     => LET A  == mat[last'.x]
            B  == mat[last'.y]
            R  == mat'["result"]
            Rd == heap'[R.data]
            cells == ((0..(A.rows - 1)) \X (0..(B.cols - 1))) \cup Keys(Rd)
        IN /\ R.rows = A.rows /\ R.cols = B.cols
           /\ \A k \in cells :
                LET sum == DenseCell(heap[A.data], heap[B.data], A.cols, k[1], k[2])
                IN (HasKey(Rd, k) <=> sum # 0) /\ DictGet(Rd, k, 0) = sum]_vars

\* [[1,0],[0,2]] times [[3,4],[0,5]] gave [[3,4],[0,10]]
C5_Witness ==
  /\ last.op = "multiply" /\ last.err = "" /\ last.x = "matrix1" /\ last.y = "matrix2"
  /\ Items(Dict("matrix1")) = {<<<<0, 0>>, 1>>, <<<<1, 1>>, 2>>}
  /\ Items(Dict("matrix2")) = {<<<<0, 0>>, 3>>, <<<<0, 1>>, 4>>, <<<<1, 1>>, 5>>}
  /\ mat["result"].rows = 2 /\ mat["result"].cols = 2
  /\ Items(Dict("result")) = {<<<<0, 0>>, 3>>, <<<<0, 1>>, 4>>, <<<<1, 1>>, 10>>}

\* C6: add and subtract raise the dimension error exactly when rows or cols
\* differ, multiply exactly when A.cols differs from B.rows; a call that
\* raises returns nothing and a call that does not raise returns a matrix.
C6_DimensionMismatch ==
  [][IsArith =>
       LET A == mat[last'.x]
           B == mat[last'.y]
       IN /\ last'.op = "add" =>
               (last'.err = ADD_MISMATCH <=> (A.rows # B.rows \/ A.cols # B.cols))
          /\ last'.op = "subtract" =>
               (last'.err = SUB_MISMATCH <=> (A.rows # B.rows \/ A.cols # B.cols))
          /\ last'.op = "multiply" => (last'.err = MUL_MISMATCH <=> A.cols # B.rows)
          /\ last'.err \in DimensionMismatch \cup {""}
          /\ last'.err # "" => (mat' = mat /\ heap' = heap)
          /\ last'.err = "" => "result" \in DOMAIN mat']_vars

\* add on a 2x2 and a 3x2 matrix raised and nothing was returned
C6_Witness ==
  /\ last.op = "add" /\ last.err = ADD_MISMATCH
  /\ mat[last.x].rows = 2 /\ mat[last.x].cols = 2
  /\ mat[last.y].rows = 3 /\ mat[last.y].cols = 2
  /\ "result" \notin DOMAIN mat

\* C7: an arithmetic call leaves every matrix the caller holds as it was
\* (rows, cols and entries), and a set_element call on one matrix leaves the
\* entries of every other matrix as they were: no two matrices share a dict.
C7_OperandsUntouched ==
  [][/\ IsArith =>
          \A s \in DOMAIN mat : (s # "result" \/ last'.err # "") =>
             /\ mat'[s].rows = mat[s].rows /\ mat'[s].cols = mat[s].cols
             /\ heap'[mat'[s].data] = Dict(s)
     /\ IsSetElement =>
          \A s \in DOMAIN mat \ {last'.x} : heap'[mat'[s].data] = Dict(s)
     /\ \A s \in DOMAIN mat', t \in DOMAIN mat' : s # t => mat'[s].data # mat'[t].data]_vars

\* set_element changed the matrix add returned, right after the call
C7_Witness ==
  /\ prev.op = "add" /\ prev.err = "" /\ Len(Dict(prev.y)) > 0
  /\ last.op = "set_element" /\ last.x = "result"
  /\ Dict("result") # Dict(prev.x)

\* an integer literal: an optional sign, then digits
IsInteger(t) ==
  LET u == Strip(t)
      body == IF u # <<>> /\ u[1] \in {"-", "+"} THEN Tail(u) ELSE u
  IN body # <<>> /\ \A i \in 1..Len(body) : IsDigit(body[i])

\* the three line shapes of the file format
RowsShape(line) == StartsWith(line, ROWS_EQ) /\ IsInteger(SubSeq(line, Len(ROWS_EQ) + 1, Len(line)))
ColsShape(line) == StartsWith(line, COLS_EQ) /\ IsInteger(SubSeq(line, Len(COLS_EQ) + 1, Len(line)))
EntryShape(line) ==
  /\ StartsWith(line, <<"(">>) /\ EndsWith(line, <<")">>)
  /\ LET parts == Split(SubSeq(line, 2, Len(line) - 1), ",")
     IN Len(parts) = 3 /\ \A i \in 1..3 : IsInteger(parts[i])

HasBadLine(text) ==
  \E i \in 1..Len(FileLines(text)) :
    LET line == Strip(FileLines(text)[i])
    IN line # <<>> /\ ~(RowsShape(line) \/ ColsShape(line) \/ EntryShape(line))

\* C8: loading a file that holds a non-blank line of none of the three
\* shapes raises the format error and returns no matrix.
C8_BadLineFailsLoad ==
  (last.op = "load" /\ Read(last.args[1]) # NoFile /\ HasBadLine(Read(last.args[1])))
  => (last.err = WRONG_FORMAT /\ last.x \notin DOMAIN mat)

\* C9: the saved text is the rows= line, the cols= line, then one entry line
\* per stored entry, in strictly ascending (row, col) order.
EntryOf(line) ==
  LoadEntry([ok |-> TRUE, rows |-> 0, cols |-> 0, data |-> <<>>], line).data

EntriesOf(lines) == [i \in 1..(Len(lines) - 2) |-> EntryOf(lines[2 + i])]

HeaderThenEntries(lines, entries, m, d) ==
  /\ Len(lines) = 2 + Len(d)
  /\ lines[1] = ROWS_EQ \o IntToStr(m.rows)
  /\ lines[2] = COLS_EQ \o IntToStr(m.cols)
  /\ \A i \in 1..Len(d) : Len(entries[i]) = 1 /\ entries[i][1] \in Items(d)
  /\ \A i \in 1..(Len(d) - 1) : KeyLess(entries[i][1][1], entries[i + 1][1][1])

C9_SerializationOrder ==
  last.op = "save" =>
    HeaderThenEntries(Split(result_txt, NL), EntriesOf(Split(result_txt, NL)),
                      mat[last.x], Dict(last.x))

\* a dict whose insertion order is not the key order was saved
C9_Witness ==
  /\ last.op = "save" /\ Len(Dict(last.x)) >= 3
  /\ \E i \in 1..(Len(Dict(last.x)) - 1) : KeyLess(Dict(last.x)[i + 1][1], Dict(last.x)[i][1])

\* C10: for operands of equal dimensions that store no 0, a successful add
\* (subtract) returns a matrix of A's dimensions that stores key (r, c)
\* exactly when A[r,c] + B[r,c] (A[r,c] - B[r,c]) is non-zero, with that
\* value; keys of operands within the dimensions give keys within them.
C10_AddSubtractCellwise ==
  [][(/\ IsArith /\ last'.op \in {"add", "subtract"} /\ last'.err = ""
      /\ NoZero(Dict(last'.x)) /\ NoZero(Dict(last'.y)))
     => LET A  == mat[last'.x]
            B  == mat[last'.y]
            Ad == heap[A.data]
            Bd == heap[B.data]
            R  == mat'["result"]
            Rd == heap'[R.data]
        IN /\ R.rows = A.rows /\ R.cols = A.cols
           /\ \A k \in Keys(Ad) \cup Keys(Bd) \cup Keys(Rd) :
                LET cell == IF last'.op = "add"
                            THEN DictGet(Ad, k, 0) + DictGet(Bd, k, 0)
                            ELSE DictGet(Ad, k, 0) - DictGet(Bd, k, 0)
                IN (HasKey(Rd, k) <=> cell # 0) /\ DictGet(Rd, k, 0) = cell
           /\ (InRange(Ad, A.rows, A.cols) /\ InRange(Bd, B.rows, B.cols))
                => InRange(Rd, R.rows, R.cols)]_vars

\* add returned a matrix in which a cell both operands store cancelled
C10_Witness ==
  /\ last.op = "add" /\ last.err = "" /\ last.x = "matrix1" /\ last.y = "matrix2"
  /\ NoZero(Dict("matrix1")) /\ NoZero(Dict("matrix2"))
  /\ \E k \in Keys(Dict("matrix1")) \cap Keys(Dict("matrix2")) : ~HasKey(Dict("result"), k)
  /\ Dict("result") # <<>>

====
